---- MODULE Spec2Model ----
(***************************************************************************)
(* Model of the concurrent file-processing pipeline of LINES/main.py:      *)
(* FileExtractor.run starts self.threads worker threads that drain a       *)
(* shared queue.Queue with FileExtractor.process_file, each job running    *)
(* extension check -> calculate_hash -> is_duplicate -> decode/filter ->   *)
(* watermark -> write -> stats update.                                     *)
(*                                                                         *)
(* Abstractions (stated once, used throughout):                            *)
(*  - a file's bytes are a sequence of raw lines taken from a small        *)
(*    alphabet of byte strings; decoding and encoding are tables over it;  *)
(*  - an MD5 digest is a number computed by folding the raw lines; its     *)
(*    first 8 hex characters are the number without its last digit;        *)
(*  - the time stamp of the watermark block is left out;                   *)
(*  - stats['archives_processed'] and stats['start_time'] are left out     *)
(*    (run and process_file never touch them);                             *)
(*  - the input folder is not changed while the program runs.              *)
(***************************************************************************)
EXTENDS Integers, Sequences, FiniteSets, TLC

\* ---------------------------------------------------------------- bounds
MaxLines   == 2   \* longest input file, in lines
MaxCap     == 2   \* largest line cap typed at the prompt
MaxThreads == 2   \* largest thread count typed at the prompt
MaxRuns    == 2   \* calls of run on one FileExtractor

VARIABLES
  indir,       \* the input folder: file name -> entry
  outdir,      \* the output folder: [exists, files: file name -> entry]
  answers,     \* what the user is going to type at get_user_input's prompts
  attrs,       \* the FileExtractor attributes get_user_input sets
  stats,       \* self.stats (= self.session_stats)
  file_queue,  \* run's queue.Queue
  main,        \* position of the main thread: "menu", "starting", "polling"
  started,     \* threads started so far by run's loop
  progress_n,  \* progress.n of run's tqdm bar
  pc,          \* position of each worker thread in process_file
  loc,         \* local variables of each worker thread
  runs,        \* calls of run so far
  enqueued,    \* history: the files run put on the queue, in order, this run
  outdir0,     \* history: the output folder as run found it, this run
  stats0,      \* history: the statistics as run found them, this run
  claimedBy,   \* history: the workers that got each file, this run
  results      \* history: the counter updates made for each file, this run

vars == <<indir, outdir, answers, attrs, stats, file_queue, main, started,
          progress_n, pc, loc, runs, enqueued, outdir0, stats0, claimedBy,
          results>>

Workers == 1..MaxThreads

\* ------------------------------------------------------------ small helpers
Min(a, b) == IF a < b THEN a ELSE b
Max(a, b) == IF a > b THEN a ELSE b

SeqOfLen(S, n) == UNION {[1..k -> S] : k \in 0..n}

RECURSIVE SetToSeqs(_)
\* every order in which os.scandir may list a set of names
SetToSeqs(S) ==
  IF S = {} THEN {<<>>}
  ELSE UNION {{<<x>> \o t : t \in SetToSeqs(S \ {x})} : x \in S}

\* ----------------------------------------------------- names and str.lower
InNames == {"a.txt", "b.TXT", "c.jpg", "sub"}

\* Path.suffix
Suffix(name) ==
  CASE name \in {"a.txt", "old.txt", "extracted_a.txt"} -> ".txt"
    [] name \in {"b.TXT", "extracted_b.TXT"} -> ".TXT"
    [] name \in {"c.jpg", "extracted_c.jpg"} -> ".jpg"
    [] OTHER -> ""

\* str.lower on the strings of the model
Lower(s) ==
  CASE s = ".TXT" -> ".txt"
    [] s = "an ERROR" -> "an error"
    [] s = "Error" -> "error"
    [] OTHER -> s

\* `a in b` on lower-cased strings of the model (substring test)
InStr(a, b) ==
  \/ a = b
  \/ a = "error" /\ b = "an error"

\* ------------------------------------------------------- bytes and codecs
\* raw lines an input file may hold: ASCII, ASCII with the word ERROR, and a
\* line with the Latin-1 byte E9, which is not valid UTF-8
RawIn == {"ok", "an ERROR", "caf<E9>"}

Encodings == <<"utf-8", "latin-1", "cp1252", "utf-16">>

\* whether codec enc decodes the raw line without UnicodeDecodeError
CanDecode(enc, raw) ==
  CASE enc = "utf-8"  -> raw # "caf<E9>"
    [] enc = "utf-16" -> FALSE
    [] OTHER -> TRUE

\* the text codec enc yields for a raw line it can decode
DecodeLine(enc, raw) ==
  CASE raw = "caf<E9>" -> "caf<U+E9>"
    [] raw = "caf<C3 A9>" /\ enc = "utf-8" -> "caf<U+E9>"
    [] raw = "caf<C3 A9>" -> "caf<U+C3><U+A9>"
    [] OTHER -> raw

\* str.encode('utf-8'), as open(..., 'w', encoding='utf-8') writes text
EncodeUtf8(text) ==
  CASE text = "caf<U+E9>" -> "caf<C3 A9>"
    [] text = "caf<U+C3><U+A9>" -> "caf<C3 83 C2 A9>"
    [] OTHER -> text

LineCode(raw) ==
  CASE raw = "ok" -> 1
    [] raw = "an ERROR" -> 2
    [] raw = "caf<E9>" -> 3
    [] raw = "caf<C3 A9>" -> 4
    [] raw = "caf<C3 83 C2 A9>" -> 5
    [] OTHER -> 7

RECURSIVE Md5(_)
\* hashlib.md5 fed the bytes chunk after chunk
Md5(bytes) ==
  IF bytes = <<>> THEN 0
  ELSE Md5(SubSeq(bytes, 1, Len(bytes) - 1)) * 8 + LineCode(bytes[Len(bytes)])

\* file_hash[:8]
Prefix8(h) == h \div 8

HashError == -1

\* ------------------------------------------------------------ file entries
File(lines, pre, readable) ==
  [kind |-> "file", lines |-> lines, pre |-> pre, readable |-> readable]

Dir == [kind |-> "dir", lines |-> <<>>, pre |-> 0, readable |-> TRUE]

\* index of the first raw line UTF-8 cannot decode, 0 if there is none
FirstBad(lines) ==
  IF \E i \in 1..Len(lines) : ~CanDecode("utf-8", lines[i])
  THEN CHOOSE i \in 1..Len(lines) :
         /\ ~CanDecode("utf-8", lines[i])
         /\ \A j \in 1..(i - 1) : CanDecode("utf-8", lines[j])
  ELSE 0

\* the readable files of at most n lines; pre is the number of lines that lie
\* wholly in the chunks the text reader decodes before the chunk with the
\* first undecodable byte (the reader hands those lines out before it raises)
InFiles(n) ==
  UNION {{File(l, p, TRUE) : p \in 0..Max(FirstBad(l) - 1, 0)} :
           l \in SeqOfLen(RawIn, n)}

EmptyFolder == [n \in {} |-> Dir]

InPath(name)  == <<"in", name>>
OutPath(name) == <<"out", name>>

\* ------------------------------------------------- the pipeline's functions
\* mutant of AllowedExt: the extension test lets every file through
AllowedExtAny(name, file_types) == TRUE

\* suffix.lower() in [ext.lower() for ext in self.file_types]
AllowedExt(name, file_types) ==
  Lower(Suffix(name)) \in {Lower(file_types[i]) : i \in DOMAIN file_types}

\* calculate_hash: the digest, or HashError when open/read raises
calculate_hash(entry) ==
  IF entry.kind = "file" /\ entry.readable THEN Md5(entry.lines) ELSE HashError

\* mutant of DupMatch: no try/except around the hash of the existing file
DupMatchNoExcept(dir, name, filepath, file_hash) ==
  LET existing == dir.files[name] IN
    IF existing.kind = "file" /\ OutPath(name) # filepath
    THEN IF calculate_hash(existing) = HashError THEN "raise"
         ELSE IF calculate_hash(existing) = file_hash THEN "match"
         ELSE "next"
    ELSE "next"

\* body of is_duplicate's loop for one directory entry: "match" when it
\* returns True, "next" when the loop goes on (also after `except: continue`)
DupMatch(dir, name, filepath, file_hash) ==
  LET existing == dir.files[name] IN
    IF existing.kind = "file" /\ OutPath(name) # filepath
    THEN IF calculate_hash(existing) = HashError THEN "next"
         ELSE IF calculate_hash(existing) = file_hash THEN "match"
         ELSE "next"
    ELSE "next"

RECURSIVE ScanDir(_, _, _, _)
\* `for existing_file in output_dir.iterdir()`, then `return False`
ScanDir(names, dir, filepath, file_hash) ==
  IF names = {} THEN "False"
  ELSE LET n == CHOOSE x \in names : TRUE
           r == DupMatch(dir, n, filepath, file_hash)
       IN IF r = "match" THEN "True"
          ELSE IF r = "raise" THEN "Raised"
          ELSE ScanDir(names \ {n}, dir, filepath, file_hash)

\* is_duplicate: "True", "False", or "Raised" when an exception leaves it
is_duplicate(dir, filepath, file_hash) ==
  IF ~dir.exists THEN "False"
  ELSE ScanDir(DOMAIN dir.files, dir, filepath, file_hash)

\* open(input_path, 'r', encoding=enc) and iteration: the lines the reader hands
\* out, and whether it then raises UnicodeDecodeError
ReadLines(enc, f) ==
  LET bad == {i \in 1..Len(f.lines) : ~CanDecode(enc, f.lines[i])}
      n   == IF bad = {} THEN Len(f.lines)
             ELSE IF enc = "utf-8" THEN f.pre ELSE 0
  IN [lines |-> [i \in 1..n |-> DecodeLine(enc, f.lines[i])], err |-> bad # {}]

\* self.filter_terms and any(term.lower() in line.lower() for term in ...)
Filtered(line, terms) ==
  /\ terms # <<>>
  /\ \E i \in 1..Len(terms) : InStr(Lower(terms[i]), Lower(line))

RECURSIVE ConsumeLinesFilterFirst(_, _, _, _)
\* mutant of ConsumeLines: the filter is applied before the cap is tested
ConsumeLinesFilterFirst(lines, st, cap, terms) ==
  IF lines = <<>> THEN [st |-> st, broke |-> FALSE]
  ELSE IF Filtered(Head(lines), terms)
       THEN ConsumeLinesFilterFirst(Tail(lines),
                                    [st EXCEPT !.filtered = @ + 1], cap, terms)
       ELSE IF st.lines_written >= cap THEN [st |-> st, broke |-> TRUE]
       ELSE ConsumeLinesFilterFirst(Tail(lines),
                                    [st EXCEPT !.content = Append(@, Head(lines)),
                                               !.lines_written = @ + 1],
                                    cap, terms)

RECURSIVE ConsumeLinesOffByOne(_, _, _, _)
\* mutant of ConsumeLines: the cap test is `>` where the source has `>=`
ConsumeLinesOffByOne(lines, st, cap, terms) ==
  IF lines = <<>> THEN [st |-> st, broke |-> FALSE]
  ELSE IF st.lines_written > cap THEN [st |-> st, broke |-> TRUE]
  ELSE IF Filtered(Head(lines), terms)
       THEN ConsumeLinesOffByOne(Tail(lines), [st EXCEPT !.filtered = @ + 1],
                                 cap, terms)
       ELSE ConsumeLinesOffByOne(Tail(lines),
                                 [st EXCEPT !.content = Append(@, Head(lines)),
                                            !.lines_written = @ + 1],
                                 cap, terms)

RECURSIVE ConsumeLines(_, _, _, _)
\* the inner `for line in f` loop; broke: left by the break of the cap test
ConsumeLines(lines, st, cap, terms) ==
  IF lines = <<>> THEN [st |-> st, broke |-> FALSE]
  ELSE IF st.lines_written >= cap THEN [st |-> st, broke |-> TRUE]
  ELSE IF Filtered(Head(lines), terms)
       THEN ConsumeLines(Tail(lines), [st EXCEPT !.filtered = @ + 1],
                         cap, terms)
       ELSE ConsumeLines(Tail(lines),
                         [st EXCEPT !.content = Append(@, Head(lines)),
                                    !.lines_written = @ + 1],
                         cap, terms)

RECURSIVE ExtractLoop(_, _, _, _, _)
\* the `for encoding in [...]` loop from encoding number i on; lines_written,
\* filtered and content are set once before the loop and kept across attempts
ExtractLoop(i, f, st, cap, terms) ==
  IF i > Len(Encodings) THEN st
  ELSE LET r == ReadLines(Encodings[i], f)
           c == ConsumeLines(r.lines, st, cap, terms)
       IN IF c.broke \/ ~r.err THEN c.st
          ELSE ExtractLoop(i + 1, f, c.st, cap, terms)

ExtractStart == [lines_written |-> 0, filtered |-> 0, content |-> <<>>]

\* mutant of WatermarkBlock: the whole digest instead of file_hash[:8]
WatermarkBlockFullHash(name, lines_written, file_hash) ==
  "[SOURCE: " \o name \o " | LINES: " \o ToString(lines_written)
    \o " | HASH: " \o ToString(file_hash) \o "...]"

\* the watermark block (without its time stamp)
WatermarkBlock(name, lines_written, file_hash) ==
  "[SOURCE: " \o name \o " | LINES: " \o ToString(lines_written)
    \o " | HASH: " \o ToString(Prefix8(file_hash)) \o "...]"

AddWatermark(content, watermark, name, lines_written, file_hash) ==
  IF watermark
  THEN Append(content, WatermarkBlock(name, lines_written, file_hash))
  ELSE content

\* f.writelines(content) into a file opened with encoding='utf-8'
WriteLines(content) == [i \in 1..Len(content) |-> EncodeUtf8(content[i])]

\* mutant of OutName: the output is named after the file type alone
OutNameByType(name) == "extracted" \o Lower(Suffix(name))

\* output_path = Path(self.output_folder) / f"extracted_{input_path.name}"
OutName(name) == "extracted_" \o name

\* open(output_path, 'w') raises on a directory and on a file without access
CanOpenForWrite(dir, target) ==
  \/ target \notin DOMAIN dir.files
  \/ dir.files[target].kind = "file" /\ dir.files[target].readable

\* --------------------------------------------------------- counter updates
CountSkipped(s)   == [s EXCEPT !.skipped = @ + 1]
\* mutant of CountDuplicate: the duplicate is not counted as skipped
CountDuplicateOnly(s) == [s EXCEPT !.duplicates_found = @ + 1]

\* with self.lock: duplicates_found += 1; skipped += 1 (one critical section;
\* duplicates_found is read nowhere else while a worker is alive)
CountDuplicate(s) == [s EXCEPT !.duplicates_found = @ + 1, !.skipped = @ + 1]

\* mutant of CountError: the failed job is counted as processed as well
CountErrorAndProcessed(s) == [s EXCEPT !.errors = @ + 1, !.processed = @ + 1]

\* with self.lock: self.stats['errors'] += 1
CountError(s)     == [s EXCEPT !.errors = @ + 1]
\* mutant of CountProcessed: the update is computed from the counters as they
\* were when the run began, so the updates of other jobs are overwritten
CountProcessedStale(s, lines_written, filtered) ==
  [s EXCEPT !.processed = stats0.processed + 1,
            !.total_lines = stats0.total_lines + lines_written,
            !.filtered_lines = stats0.filtered_lines + filtered]

CountProcessed(s, lines_written, filtered) ==
  [s EXCEPT !.processed = @ + 1,
            !.total_lines = @ + lines_written,
            !.filtered_lines = @ + filtered]

\* ------------------------------------------------------------ initial state
\* self.session_stats of __init__
ZeroStats ==
  [total_files |-> 0, processed |-> 0, skipped |-> 0, errors |-> 0,
   total_lines |-> 0, filtered_lines |-> 0, duplicates_found |-> 0]

\* the attributes get_user_input sets do not exist before its first call
NoConfig ==
  [lines_to_extract |-> 0, watermark |-> FALSE, filter_terms |-> <<>>,
   threads |-> 0, file_types |-> <<>>, check_duplicates |-> FALSE]

NoLocals ==
  [input_path |-> "", file_hash |-> 0, lines_written |-> 0, filtered |-> 0,
   content |-> <<>>]

NoHistory == [n \in InNames |-> <<>>]

\* what the program owns after FileExtractor(): zeroed statistics, no run yet
Constructed ==
  /\ attrs = NoConfig
  /\ stats = ZeroStats
  /\ file_queue = <<>>
  /\ main = "menu"
  /\ started = 0
  /\ progress_n = 0
  /\ pc = [w \in Workers |-> "unstarted"]
  /\ loc = [w \in Workers |-> NoLocals]
  /\ runs = 0
  /\ enqueued = <<>>
  /\ outdir0 = outdir
  /\ stats0 = ZeroStats
  /\ claimedBy = NoHistory
  /\ results = NoHistory

\* the output folders the one-file runs may find: none, or one that holds a
\* file without read permission and a sub-folder
LinesOutDirs ==
  {[exists |-> FALSE, files |-> EmptyFolder],
   [exists |-> TRUE,
    files |-> ("old.txt" :> File(<<"ok">>, 0, FALSE)) @@ ("olddir" :> Dir)]}

\* one text file of any content, one worker: the per-file pipeline
InitLines ==
  /\ indir \in {("a.txt" :> f) @@ ("c.jpg" :> File(<<"ok">>, 0, TRUE)) :
                  f \in InFiles(MaxLines)}
  /\ outdir \in LinesOutDirs
  /\ answers \in [lines_to_extract : 0..MaxCap, watermark : BOOLEAN,
                  filter_terms : {<<>>, <<"Error">>}, threads : {0, 1},
                  file_types : {<<".TXT">>}, check_duplicates : BOOLEAN]

\* the output folders a run of the pool may find: none, one that holds a copy
\* of a.txt, one where the output path of a.txt is taken by a folder
OutDirs ==
  {[exists |-> FALSE, files |-> EmptyFolder],
   [exists |-> TRUE, files |-> ("old.txt" :> File(<<"ok">>, 0, TRUE))],
   [exists |-> TRUE, files |-> ("extracted_a.txt" :> Dir)]}

\* several files, several workers: the pool
InitPool ==
  /\ indir \in {("a.txt" :> File(<<"ok">>, 0, TRUE)) @@ ("b.TXT" :> f)
                  @@ ("c.jpg" :> File(<<"ok">>, 0, TRUE)) @@ ("sub" :> Dir) :
                  f \in {File(<<"ok">>, 0, TRUE), File(<<"ok">>, 0, FALSE),
                         File(<<"ok", "an ERROR">>, 0, TRUE)}}
  /\ outdir \in OutDirs
  /\ answers \in [lines_to_extract : {MaxCap}, watermark : BOOLEAN,
                  filter_terms : {<<"Error">>}, threads : {1, MaxThreads},
                  file_types : {<<".TXT">>, <<".jpg", ".md">>},
                  check_duplicates : BOOLEAN]

Init == (InitLines \/ InitPool) /\ Constructed

\* ------------------------------------------------------------ main thread
\* self.threads = min(16, max(1, int(threads_input)))
ClampThreads(n) == Min(16, Max(1, n))

get_user_input ==
  /\ main = "menu"
  /\ answers # NoConfig
  /\ attrs' = [answers EXCEPT !.threads = ClampThreads(@)]
  /\ answers' = NoConfig
  /\ UNCHANGED <<indir, outdir, stats, file_queue, main, started, progress_n,
                 pc, loc, runs, enqueued, outdir0, stats0, claimedBy, results>>

\* the list comprehension of run: the regular files with an allowed extension
MatchingFiles(folder, file_types) ==
  {n \in DOMAIN folder : folder[n].kind = "file" /\ AllowedExt(n, file_types)}

\* run up to the start of the threads: mkdir, file list, total_files, queue, bar
run_begin ==
  /\ main = "menu"
  /\ attrs # NoConfig
  /\ runs < MaxRuns
  /\ runs' = runs + 1
  /\ outdir' = [outdir EXCEPT !.exists = TRUE]
  /\ outdir0' = outdir'
  /\ stats0' = stats
  /\ claimedBy' = NoHistory
  /\ results' = NoHistory
  /\ \E files \in SetToSeqs(MatchingFiles(indir, attrs.file_types)) :
       /\ stats' = [stats EXCEPT !.total_files = Len(files)]
       /\ enqueued' = files
       /\ IF files = <<>>
          THEN UNCHANGED <<file_queue, main, started, progress_n, pc, loc>>
          ELSE /\ file_queue' = files
               /\ progress_n' = 0
               /\ main' = "starting"
               /\ started' = 0
               /\ pc' = [w \in Workers |-> "unstarted"]
               /\ loc' = [w \in Workers |-> NoLocals]
  /\ UNCHANGED <<indir, answers, attrs>>

\* one pass of `for _ in range(self.threads): t.start()`
run_start_thread ==
  /\ main = "starting"
  /\ started' = started + 1
  /\ pc' = [pc EXCEPT ![started + 1] = "loop"]
  /\ main' = IF started + 1 = attrs.threads THEN "polling" ELSE "starting"
  /\ UNCHANGED <<indir, outdir, answers, attrs, stats, file_queue, progress_n,
                 loc, runs, enqueued, outdir0, stats0, claimedBy, results>>

Alive(w) == pc[w] \notin {"unstarted", "exited"}

\* one pass of `while any(t.is_alive() for t in threads)`
run_poll ==
  /\ main = "polling"
  /\ \E w \in Workers : Alive(w)
  /\ progress_n' = stats.processed + stats.errors + stats.skipped
  /\ UNCHANGED <<indir, outdir, answers, attrs, stats, file_queue, main,
                 started, pc, loc, runs, enqueued, outdir0,
                 stats0, claimedBy, results>>

\* the loop ends: progress.close(), the summary, return to the menu
run_finish ==
  /\ main = "polling"
  /\ \A w \in Workers : ~Alive(w)
  /\ main' = "menu"
  /\ UNCHANGED <<indir, outdir, answers, attrs, stats, file_queue, started,
                 progress_n, pc, loc, runs, enqueued, outdir0,
                 stats0, claimedBy,
          results>>

\* ----------------------------------------------------------- worker threads
\* mutant of get_nowait: the item is handed out but stays in the queue
get_nowait_peek(q) == [item |-> Head(q), rest |-> q]

\* mutant of get_nowait: the queue hands out its newest item (a LIFO queue)
get_nowait_newest(q) == [item |-> q[Len(q)], rest |-> SubSeq(q, 1, Len(q) - 1)]

\* file_queue.get_nowait(): the item handed out and what stays in the queue
get_nowait(q) == [item |-> Head(q), rest |-> Tail(q)]

\* history of one counter update made by worker w for file name
Noted(name, w, tag, lines_written, filtered) ==
  [results EXCEPT ![name] = Append(@, [by |-> w, tag |-> tag,
                                        lines_written |-> lines_written,
                                        filtered |-> filtered])]

\* back to the `while` test after continue / the end of the try block
\* (finally: file_queue.task_done() only counts unfinished tasks, nobody joins)
NextJob(w) ==
  /\ pc' = [pc EXCEPT ![w] = "loop"]
  /\ loc' = [loc EXCEPT ![w] = NoLocals]

\* mutant of Raise: no handler, the exception ends the worker thread
RaiseUncaught(w) ==
  /\ pc' = [pc EXCEPT ![w] = "exited"]
  /\ loc' = [loc EXCEPT ![w] = NoLocals]
  /\ UNCHANGED <<stats, results>>

\* except Exception: with self.lock: self.stats['errors'] += 1; continue
Raise(w) ==
  /\ stats' = CountError(stats)
  /\ results' = Noted(loc[w].input_path, w, "error", 0, 0)
  /\ NextJob(w)

\* mutant of process_file_loop: the worker waits for an item when the queue is
\* empty instead of leaving the loop
process_file_loop_blocking(w) ==
  /\ pc[w] = "loop"
  /\ file_queue # <<>>
  /\ pc' = [pc EXCEPT ![w] = "get"]
  /\ UNCHANGED <<indir, outdir, answers, attrs, stats, file_queue, main,
                 started, progress_n, loc, runs, enqueued, outdir0,
                 stats0, claimedBy, results>>

\* while not file_queue.empty()
process_file_loop(w) ==
  /\ pc[w] = "loop"
  /\ pc' = [pc EXCEPT ![w] = IF file_queue = <<>> THEN "exited" ELSE "get"]
  /\ UNCHANGED <<indir, outdir, answers, attrs, stats, file_queue, main,
                 started, progress_n, loc, runs, enqueued, outdir0,
                 stats0, claimedBy, results>>

\* input_path = file_queue.get_nowait(); except queue.Empty: return
process_file_get(w) ==
  /\ pc[w] = "get"
  /\ IF file_queue = <<>>
     THEN /\ pc' = [pc EXCEPT ![w] = "exited"]
          /\ UNCHANGED <<file_queue, loc, claimedBy>>
     ELSE /\ file_queue' = get_nowait(file_queue).rest
          /\ loc' = [loc EXCEPT ![w].input_path = get_nowait(file_queue).item]
          /\ claimedBy' = [claimedBy EXCEPT
                             ![get_nowait(file_queue).item] = Append(@, w)]
          /\ pc' = [pc EXCEPT ![w] = "begin"]
  /\ UNCHANGED <<indir, outdir, answers, attrs, stats, main, started,
                 progress_n, runs, enqueued, outdir0, stats0, results>>

\* the extension test and calculate_hash(input_path)
process_file_begin(w) ==
  /\ pc[w] = "begin"
  /\ LET name == loc[w].input_path
         h    == calculate_hash(indir[name])
     IN IF ~AllowedExt(name, attrs.file_types)
        THEN /\ stats' = CountSkipped(stats)
             /\ results' = Noted(name, w, "skipped", 0, 0)
             /\ NextJob(w)
        ELSE IF h = HashError
        THEN Raise(w)
        ELSE /\ loc' = [loc EXCEPT ![w].file_hash = h]
             /\ pc' = [pc EXCEPT ![w] = "dup"]
             /\ UNCHANGED <<stats, results>>
  /\ UNCHANGED <<indir, outdir, answers, attrs, file_queue, main, started,
                 progress_n, runs, enqueued, outdir0, stats0, claimedBy>>

\* mutant of process_file_dup: is_duplicate is called whatever
\* self.check_duplicates says
process_file_dup_always(w) ==
  /\ pc[w] = "dup"
  /\ LET name == loc[w].input_path
         dup  == is_duplicate(outdir, InPath(name), loc[w].file_hash)
         st   == ExtractLoop(1, indir[name], ExtractStart,
                             attrs.lines_to_extract, attrs.filter_terms)
     IN IF dup = "Raised"
        THEN Raise(w)
        ELSE IF dup = "True"
        THEN /\ stats' = CountDuplicate(stats)
             /\ results' = Noted(name, w, "duplicate", 0, 0)
             /\ NextJob(w)
        ELSE /\ loc' = [loc EXCEPT
                          ![w].lines_written = st.lines_written,
                          ![w].filtered = st.filtered,
                          ![w].content =
                             AddWatermark(st.content, attrs.watermark, name,
                                          st.lines_written, loc[w].file_hash)]
             /\ pc' = [pc EXCEPT ![w] = "open"]
             /\ UNCHANGED <<stats, results>>
  /\ UNCHANGED <<indir, outdir, answers, attrs, file_queue, main, started,
                 progress_n, runs, enqueued, outdir0, stats0, claimedBy>>

\* the duplicate test, then the decode/filter loop and the watermark
process_file_dup(w) ==
  /\ pc[w] = "dup"
  /\ LET name == loc[w].input_path
         dup  == IF attrs.check_duplicates
                 THEN is_duplicate(outdir, InPath(name), loc[w].file_hash)
                 ELSE "False"
         st   == ExtractLoop(1, indir[name], ExtractStart,
                             attrs.lines_to_extract, attrs.filter_terms)
     IN IF dup = "Raised"
        THEN Raise(w)
        ELSE IF dup = "True"
        THEN /\ stats' = CountDuplicate(stats)
             /\ results' = Noted(name, w, "duplicate", 0, 0)
             /\ NextJob(w)
        ELSE /\ loc' = [loc EXCEPT
                          ![w].lines_written = st.lines_written,
                          ![w].filtered = st.filtered,
                          ![w].content =
                             AddWatermark(st.content, attrs.watermark, name,
                                          st.lines_written, loc[w].file_hash)]
             /\ pc' = [pc EXCEPT ![w] = "open"]
             /\ UNCHANGED <<stats, results>>
  /\ UNCHANGED <<indir, outdir, answers, attrs, file_queue, main, started,
                 progress_n, runs, enqueued, outdir0, stats0, claimedBy>>

\* open(output_path, 'w', encoding='utf-8'): creates or truncates the file
process_file_open(w) ==
  /\ pc[w] = "open"
  /\ LET target == OutName(loc[w].input_path)
     IN IF ~CanOpenForWrite(outdir, target)
        THEN /\ Raise(w)
             /\ UNCHANGED outdir
        ELSE /\ outdir' = [outdir EXCEPT
                             !.files = (target :> File(<<>>, 0, TRUE)) @@ @]
             /\ pc' = [pc EXCEPT ![w] = "write"]
             /\ UNCHANGED <<stats, results, loc>>
  /\ UNCHANGED <<indir, answers, attrs, file_queue, main, started, progress_n,
                 runs, enqueued, outdir0, stats0, claimedBy>>

\* f.writelines(content) and the close of the with block
process_file_write(w) ==
  /\ pc[w] = "write"
  /\ outdir' = [outdir EXCEPT
                  !.files[OutName(loc[w].input_path)] =
                     File(WriteLines(loc[w].content), 0, TRUE)]
  /\ pc' = [pc EXCEPT ![w] = "update"]
  /\ UNCHANGED <<indir, answers, attrs, stats, file_queue, main, started,
                 progress_n, loc, runs, enqueued, outdir0,
                 stats0, claimedBy, results>>

\* with self.lock: processed, total_lines, filtered_lines
process_file_update(w) ==
  /\ pc[w] = "update"
  /\ stats' = CountProcessed(stats, loc[w].lines_written, loc[w].filtered)
  /\ results' = Noted(loc[w].input_path, w, "processed",
                      loc[w].lines_written, loc[w].filtered)
  /\ NextJob(w)
  /\ UNCHANGED <<indir, outdir, answers, attrs, file_queue, main, started,
                 progress_n, runs, enqueued, outdir0, stats0, claimedBy>>

Next ==
  \/ get_user_input
  \/ run_begin
  \/ run_start_thread
  \/ run_poll
  \/ run_finish
  \/ \E w \in Workers : process_file_loop(w)
  \/ \E w \in Workers : process_file_get(w)
  \/ \E w \in Workers : process_file_begin(w)
  \/ \E w \in Workers : process_file_dup(w)
  \/ \E w \in Workers : process_file_open(w)
  \/ \E w \in Workers : process_file_write(w)
  \/ \E w \in Workers : process_file_update(w)

Spec == Init /\ [][Next]_vars

\* one step of worker thread w
WorkerStep(w) ==
  \/ process_file_loop(w)
  \/ process_file_get(w)
  \/ process_file_begin(w)
  \/ process_file_dup(w)
  \/ process_file_open(w)
  \/ process_file_write(w)
  \/ process_file_update(w)

\* the runs of the largest pool over two text files, b.TXT readable or not,
\* with the duplicate test on
InitDrain ==
  /\ indir \in {("a.txt" :> File(<<"ok">>, 0, TRUE)) @@ ("b.TXT" :> f)
                  @@ ("c.jpg" :> File(<<"ok">>, 0, TRUE)) @@ ("sub" :> Dir) :
                  f \in {File(<<"ok">>, 0, TRUE), File(<<"ok">>, 0, FALSE)}}
  /\ outdir \in OutDirs
  /\ answers \in [lines_to_extract : {MaxCap}, watermark : {FALSE},
                  filter_terms : {<<"Error">>}, threads : {MaxThreads},
                  file_types : {<<".TXT">>}, check_duplicates : {TRUE}]
  /\ Constructed

\* the scheduler lets every started thread run: each worker thread and the
\* main thread inside run (the loop that starts the threads, the end of the
\* polling loop); the user at the menu is under no such obligation
FairSpec ==
  /\ InitDrain
  /\ [][Next]_vars
  /\ \A w \in Workers : WF_vars(WorkerStep(w))
  /\ WF_vars(run_start_thread)
  /\ WF_vars(run_finish)

\* the runs over one text file only
InitOneFile == InitLines /\ Constructed

SpecLines == InitOneFile /\ [][Next]_vars

\* =================================================================== claims
\* run has returned at least once and the program is back at the menu: every
\* worker thread of the last run has exited
RunReturned == main = "menu" /\ runs >= 1

Counted(s) == s.processed + s.skipped + s.errors

\* the tags of the counter updates made for file n in this run
Tagged(n, tags) == SelectSeq(results[n], LAMBDA r : r.tag \in tags)

\* C1: for every call of run, the first and any later one on the same
\* FileExtractor, once all workers have exited
\* processed + skipped + errors = total_files.
C1_CountersSumToTotal ==
  RunReturned => Counted(stats) = stats.total_files

\* process_file run for one file from start to end with no other thread in
\* between: the output folder and the statistics it leaves
OneJob(name, dir, s, cfg) ==
  LET h   == calculate_hash(indir[name])
      dup == IF cfg.check_duplicates
             THEN is_duplicate(dir, InPath(name), h) ELSE "False"
      st  == ExtractLoop(1, indir[name], ExtractStart, cfg.lines_to_extract,
                         cfg.filter_terms)
      content == AddWatermark(st.content, cfg.watermark, name,
                              st.lines_written, h)
  IN IF ~AllowedExt(name, cfg.file_types)
     THEN [dir |-> dir, stats |-> CountSkipped(s)]
     ELSE IF h = HashError \/ dup = "Raised"
     THEN [dir |-> dir, stats |-> CountError(s)]
     ELSE IF dup = "True"
     THEN [dir |-> dir, stats |-> CountDuplicate(s)]
     ELSE IF ~CanOpenForWrite(dir, OutName(name))
     THEN [dir |-> dir, stats |-> CountError(s)]
     ELSE [dir |-> [dir EXCEPT !.files = (OutName(name) :>
                                           File(WriteLines(content), 0, TRUE)) @@ @],
           stats |-> CountProcessed(s, st.lines_written, st.filtered)]

RECURSIVE OneWorkerRun(_, _, _, _)
\* the statistics a single worker leaves after draining the queue in order
OneWorkerRun(files, dir, s, cfg) ==
  IF files = <<>> THEN s
  ELSE LET r == OneJob(Head(files), dir, s, cfg)
       IN OneWorkerRun(Tail(files), r.dir, r.stats, cfg)

\* C2: for a fixed input folder, output folder and configuration the final
\* statistics are those a single worker produces, whatever the number of
\* workers and their interleaving.
C2_StatsIndependentOfWorkers ==
  RunReturned =>
    stats = OneWorkerRun(enqueued, outdir0,
                         [stats0 EXCEPT !.total_files = Len(enqueued)], attrs)

\* (the reference is the model's own one-worker run)
OneWorkerRunIsReference ==
  attrs.threads = 1 => C2_StatsIndependentOfWorkers

\* how many counter updates with one of the tags this run has made
TaggedCount(tags) ==
  Len(Tagged("a.txt", tags)) + Len(Tagged("b.TXT", tags))
    + Len(Tagged("c.jpg", tags)) + Len(Tagged("sub", tags))

\* every file of the queue has been handed out once and counted once
AllTerminal ==
  \A i \in 1..Len(enqueued) :
    Len(claimedBy[enqueued[i]]) = 1 /\ Len(results[enqueued[i]]) = 1

\* C3: every enqueued job is claimed by at most one worker and produces exactly
\* one result: exactly one of processed, skipped, errors is incremented, once,
\* by the worker that claimed it, for any number of workers and interleaving.
C3_ClaimedOnceCountedOnce ==
  /\ \A n \in InNames :
       /\ Len(claimedBy[n]) <= 1
       /\ Len(results[n]) <= Len(claimedBy[n])
       /\ results[n] # <<>> => results[n][1].by = claimedBy[n][1]
  /\ stats.processed - stats0.processed = TaggedCount({"processed"})
  /\ stats.skipped - stats0.skipped
       = TaggedCount({"skipped", "duplicate"})
  /\ stats.errors - stats0.errors = TaggedCount({"error"})
  /\ RunReturned => AllTerminal

\* two workers have each claimed and finished one of two jobs
C3_Witness ==
  /\ RunReturned
  /\ Len(enqueued) = 2
  /\ claimedBy[enqueued[1]] # claimedBy[enqueued[2]]
  /\ AllTerminal

\* worker w is at a statement that raises: calculate_hash of an unreadable
\* input file, or open(output_path, 'w') on a path that cannot be opened
RaisesAt(w) ==
  \/ /\ pc[w] = "begin"
     /\ AllowedExt(loc[w].input_path, attrs.file_types)
     /\ calculate_hash(indir[loc[w].input_path]) = HashError
  \/ /\ pc[w] = "open"
     /\ ~CanOpenForWrite(outdir, OutName(loc[w].input_path))

\* C4: when processing a file raises, errors grows by exactly one for that
\* file, the worker stays alive at the queue test and claims further jobs, and
\* every job of the run still reaches a terminal result.
C4_ErrorStaysLocal ==
  /\ [](RunReturned => AllTerminal)
  /\ [][\A w \in Workers :
          RaisesAt(w) /\ pc'[w] # pc[w] =>
            /\ stats' = [stats EXCEPT !.errors = @ + 1]
            /\ results'[loc[w].input_path]
                 = Append(results[loc[w].input_path],
                          [by |-> w, tag |-> "error", lines_written |-> 0,
                           filtered |-> 0])
            /\ pc'[w] = "loop"]_vars

\* a worker that hit an error on one file has claimed and finished a later one
C4_Witness ==
  /\ Len(enqueued) = 2
  /\ results[enqueued[1]] # <<>>
  /\ results[enqueued[1]][1].tag = "error"
  /\ results[enqueued[2]] # <<>>
  /\ results[enqueued[2]][1].tag = "processed"
  /\ results[enqueued[2]][1].by = results[enqueued[1]][1].by

\* the extension of n, compared case-insensitively, is not in the allowed set
ExtExcluded(n) ==
  \A i \in DOMAIN attrs.file_types :
    Lower(Suffix(n)) # Lower(attrs.file_types[i])

\* C5: the files of the input folder whose extension is not allowed are
\* counted as skipped: after a run, skipped has grown by the number of
\* extension-excluded files plus the number of duplicates.
C5_ExcludedFilesAreSkipped ==
  RunReturned =>
    stats.skipped - stats0.skipped
      = Cardinality({n \in DOMAIN indir :
                       indir[n].kind = "file" /\ ExtExcluded(n)})
        + (stats.duplicates_found - stats0.duplicates_found)

\* C6: no output file is ever created for a file of the input folder whose
\* extension, compared case-insensitively, is not in the allowed set.
C6_NoOutputForExcluded ==
  [][\A n \in DOMAIN indir :
       ExtExcluded(n) /\ OutName(n) \in DOMAIN outdir'.files =>
         /\ OutName(n) \in DOMAIN outdir.files
         /\ outdir'.files[OutName(n)] = outdir.files[OutName(n)]]_vars

\* a run with allowed type .TXT has written the output of a.txt and has left
\* c.jpg alone
C6_Witness ==
  /\ RunReturned
  /\ attrs.file_types = <<".TXT">>
  /\ "c.jpg" \in DOMAIN indir
  /\ ExtExcluded("c.jpg")
  /\ "extracted_a.txt" \in DOMAIN outdir.files
  /\ outdir.files["extracted_a.txt"].kind = "file"
  /\ Tagged("a.txt", {"processed"}) # <<>>

\* the raw line an input line becomes when some codec decodes it and the
\* output file is written as UTF-8
SameLine(rawIn, rawOut) ==
  \E i \in DOMAIN Encodings :
    /\ CanDecode(Encodings[i], rawIn)
    /\ rawOut = EncodeUtf8(DecodeLine(Encodings[i], rawIn))

\* the retained lines of the output of input file n: the file's lines without
\* the watermark block
RetainedOf(n) ==
  LET out == outdir.files[OutName(n)].lines
  IN IF attrs.watermark THEN SubSeq(out, 1, Len(out) - 1) ELSE out

Processed(n) == Tagged(n, {"processed"}) # <<>>

\* C7: with no filter terms and cap c > 0 the retained lines of a file of n
\* lines are its first min(c, n) lines in order, lines_written is min(c, n),
\* and the job adds min(c, n) to total_lines.
C7_FirstLinesRetained ==
  \A n \in DOMAIN indir :
    attrs.filter_terms = <<>> /\ attrs.lines_to_extract > 0 /\ Processed(n) =>
      LET m == Min(attrs.lines_to_extract, Len(indir[n].lines))
      IN /\ results[n][1].lines_written = m
         /\ Len(RetainedOf(n)) = m
         /\ \A i \in 1..Min(m, Len(RetainedOf(n))) :
              SameLine(indir[n].lines[i], RetainedOf(n)[i])
         /\ Len(enqueued) = 1 => stats.total_lines - stats0.total_lines = m

\* raw line number i of the file holds a filter term
HasTerm(raw) == Filtered(DecodeLine("latin-1", raw), attrs.filter_terms)

\* the number of leading lines read until cap lines without a term have been
\* retained (the whole file when it has fewer such lines)
ReadUntilCap(lines, cap) ==
  LET kept(j) == Cardinality({i \in 1..j : ~HasTerm(lines[i])})
      full    == {j \in 0..Len(lines) : kept(j) >= cap}
  IN IF full = {} THEN Len(lines)
     ELSE CHOOSE j \in full : \A k \in full : j <= k

\* C8: with filter terms, no retained line contains a term (case-insensitive),
\* filtered lines do not count toward the cap, and filtered is the number of
\* lines with a term read before the retained count reached the cap.
C8_FilteredCount ==
  \A n \in DOMAIN indir :
    attrs.filter_terms # <<>> /\ Processed(n) =>
      LET lines == indir[n].lines
          p     == ReadUntilCap(lines, attrs.lines_to_extract)
      IN /\ \A i \in DOMAIN RetainedOf(n) :
              ~Filtered(RetainedOf(n)[i], attrs.filter_terms)
         /\ results[n][1].lines_written
              = Cardinality({i \in 1..p : ~HasTerm(lines[i])})
         /\ results[n][1].filtered
              = Cardinality({i \in 1..p : HasTerm(lines[i])})

\* the paths and digests is_duplicate may be asked about
KnownPaths ==
  {InPath("a.txt")} \cup {OutPath(n) : n \in DOMAIN outdir.files}

KnownDigests ==
  {Md5(indir[n].lines) : n \in DOMAIN indir}
    \cup {Md5(outdir.files[n].lines) : n \in DOMAIN outdir.files}

\* C10: is_duplicate returns True exactly when the output folder exists and
\* holds a regular file, other than the excluded path, whose digest is the
\* candidate's; it returns False when the folder is missing or there is no
\* such file, and a file that cannot be hashed is passed over without raising.
C10_DuplicateIffMatchingFile ==
  \A filepath \in KnownPaths, h \in KnownDigests :
    is_duplicate(outdir, filepath, h) =
      IF /\ outdir.exists
         /\ \E n \in DOMAIN outdir.files :
              /\ outdir.files[n].kind = "file"
              /\ OutPath(n) # filepath
              /\ outdir.files[n].readable
              /\ Md5(outdir.files[n].lines) = h
      THEN "True" ELSE "False"

\* a job was found to be a duplicate while the output folder also held a file
\* that cannot be hashed
C10_Witness ==
  /\ \E n \in DOMAIN indir : Tagged(n, {"duplicate"}) # <<>>
  /\ \E n \in DOMAIN outdir.files :
       outdir.files[n].kind = "file" /\ ~outdir.files[n].readable

\* what the decode/filter loop retains of input file n under the configuration
RetainedLines(n) ==
  ExtractLoop(1, indir[n], ExtractStart, attrs.lines_to_extract,
              attrs.filter_terms).content

\* the block the source formats for file n, k lines and the file's digest
ExpectedBlock(n, k) ==
  "[SOURCE: " \o n \o " | LINES: " \o ToString(k) \o " | HASH: "
    \o ToString(Md5(indir[n].lines) \div 8) \o "...]"

\* C11: the content written for a processed job is the retained lines followed,
\* when the watermark is on, by exactly one trailing block with the source
\* file's name, lines_written and the first 8 characters of the input file's
\* digest; with the watermark off it is exactly the retained lines.
C11_WatermarkBlock ==
  \A n \in DOMAIN indir :
    Processed(n) =>
      LET out == outdir.files[OutName(n)].lines
          k   == results[n][1].lines_written
      IN /\ k = Len(RetainedLines(n))
         /\ SubSeq(out, 1, Min(k, Len(out))) = WriteLines(RetainedLines(n))
         /\ IF attrs.watermark
            THEN /\ Len(out) = k + 1
                 /\ out[Len(out)] = EncodeUtf8(ExpectedBlock(n, k))
            ELSE Len(out) = k

\* two files were processed with the watermark on: each output holds one
\* retained line and the block
C11_Witness ==
  /\ RunReturned
  /\ attrs.watermark
  /\ Processed("a.txt")
  /\ Processed("b.TXT")
  /\ Len(outdir.files["extracted_a.txt"].lines) = 2
  /\ Len(outdir.files["extracted_b.TXT"].lines) = 2

\* C12: at the start of every run, the first and any later one on the same
\* FileExtractor, before any worker thread is started, the counters processed,
\* skipped, errors, total_lines, filtered_lines and duplicates_found are zero.
C12_CountersZeroAtRunStart ==
  main = "starting" /\ started = 0 =>
    /\ stats.processed = 0
    /\ stats.skipped = 0
    /\ stats.errors = 0
    /\ stats.total_lines = 0
    /\ stats.filtered_lines = 0
    /\ stats.duplicates_found = 0

\* the six counters a job updates
JobCounters(s) ==
  <<s.processed, s.skipped, s.errors, s.total_lines, s.filtered_lines,
    s.duplicates_found>>

\* C13: a configuration with a line cap <= 0 is rejected before any job is
\* scheduled: run enqueues no job, starts no worker, writes no output file and
\* changes no counter.
C13_NonPositiveCapRejected ==
  runs >= 1 /\ attrs.lines_to_extract <= 0 =>
    /\ enqueued = <<>>
    /\ file_queue = <<>>
    /\ started = 0
    /\ outdir.files = outdir0.files
    /\ JobCounters(stats) = JobCounters(stats0)

\* C14: in every reachable state, during and after any sequence of runs and for
\* any interleaving of the workers, duplicates_found <= skipped.
C14_DuplicatesWithinSkipped ==
  stats.duplicates_found <= stats.skipped

\* two duplicates have been counted, the second while another run's count was
\* already in the statistics or while another worker was at work
C14_Witness ==
  /\ stats.duplicates_found = 2
  /\ \E n \in DOMAIN indir : Tagged(n, {"duplicate"}) # <<>>

\* the result of the decode/filter loop for file n if the job ended processed
\* in this run, no lines otherwise
JobLines(n) ==
  IF n \in DOMAIN indir /\ Processed(n)
  THEN ExtractLoop(1, indir[n], ExtractStart, attrs.lines_to_extract,
                   attrs.filter_terms)
  ELSE ExtractStart

\* C15: no counter update is lost under concurrency: the increase of processed
\* is the number of jobs that ended processed, the increase of total_lines the
\* sum of their lines_written and the increase of filtered_lines the sum of
\* their filtered counts, for any worker count and interleaving.
C15_NoLostUpdate ==
  /\ stats.processed - stats0.processed = TaggedCount({"processed"})
  /\ stats.total_lines - stats0.total_lines
       = JobLines("a.txt").lines_written + JobLines("b.TXT").lines_written
           + JobLines("c.jpg").lines_written + JobLines("sub").lines_written
  /\ stats.filtered_lines - stats0.filtered_lines
       = JobLines("a.txt").filtered + JobLines("b.TXT").filtered
           + JobLines("c.jpg").filtered + JobLines("sub").filtered

\* two workers have each processed one file of a second run, one of the files
\* with a filtered line
C15_Witness ==
  /\ RunReturned
  /\ runs = 2
  /\ Processed("a.txt")
  /\ Processed("b.TXT")
  /\ results["a.txt"][1].by # results["b.TXT"][1].by
  /\ stats.processed - stats0.processed = 2
  /\ stats.filtered_lines - stats0.filtered_lines = 1

\* C16: every run over a finite file list terminates: under fair scheduling
\* all workers eventually exit and run returns, and when the last worker has
\* exited the queue is empty and no job is left unclaimed or in flight.
C16_RunTerminates ==
  /\ [](main = "polling" /\ (\A w \in Workers : ~Alive(w)) =>
          /\ file_queue = <<>>
          /\ AllTerminal
          /\ \A w \in Workers : loc[w] = NoLocals)
  /\ (main = "starting") ~> (main = "menu" /\ \A w \in Workers : ~Alive(w))

\* a run with two workers has returned: one worker drained the queue of two
\* files, the other found it empty and left
C16_Witness ==
  /\ RunReturned
  /\ attrs.threads = 2
  /\ pc[1] = "exited"
  /\ pc[2] = "exited"
  /\ Len(enqueued) = 2
  /\ claimedBy[enqueued[1]] = claimedBy[enqueued[2]]
  /\ file_queue = <<>>

\* worker w holds its output file open for writing
Writing(w) == pc[w] = "write"

\* C17: in one run no two jobs write the same output path: a job writes only
\* extracted_<input file name> in the output folder, distinct files of the run
\* have distinct output paths, and two workers never have the same file open
\* for writing.
C17_DistinctOutputPaths ==
  /\ [](\A i, j \in 1..Len(enqueued) :
          i # j => OutName(enqueued[i]) # OutName(enqueued[j]))
  /\ [](\A w1, w2 \in Workers :
          w1 # w2 /\ Writing(w1) /\ Writing(w2) =>
            OutName(loc[w1].input_path) # OutName(loc[w2].input_path))
  /\ [][\A n \in DOMAIN outdir'.files :
          n \notin DOMAIN outdir.files \/ outdir'.files[n] # outdir.files[n] =>
            \E w \in Workers :
              /\ pc[w] \in {"open", "write"}
              /\ pc'[w] # pc[w]
              /\ n = "extracted_" \o loc[w].input_path]_vars

\* two workers have their output files open at the same time
C17_Witness ==
  /\ Writing(1)
  /\ Writing(2)
  /\ loc[1].input_path # loc[2].input_path
  /\ OutName(loc[1].input_path) \in DOMAIN outdir.files
  /\ OutName(loc[2].input_path) \in DOMAIN outdir.files

\* the UTF-8 attempt on file n handed out at least one line and then raised
\* UnicodeDecodeError (the cap did not end it first)
DecodeFailedAfterLines(n) ==
  LET r == ReadLines("utf-8", indir[n])
  IN /\ r.err
     /\ r.lines # <<>>
     /\ ~ConsumeLines(r.lines, ExtractStart, attrs.lines_to_extract,
                      attrs.filter_terms).broke

\* one read of file n from its start with Latin-1, the encoding that succeeds
\* after UTF-8 has failed, beginning with nothing retained and nothing counted
FreshRead(n) ==
  ConsumeLines(ReadLines("latin-1", indir[n]).lines, ExtractStart,
               attrs.lines_to_extract, attrs.filter_terms).st

\* C18: when an encoding attempt raises a decode error after lines were
\* consumed and a later encoding succeeds, the written content, lines_written
\* and filtered come only from the successful encoding's read from the start of
\* the file.
C18_FailedAttemptLeavesNoTrace ==
  \A n \in DOMAIN indir :
    Processed(n) /\ DecodeFailedAfterLines(n) =>
      /\ results[n][1].lines_written = FreshRead(n).lines_written
      /\ results[n][1].filtered = FreshRead(n).filtered
      /\ RetainedOf(n) = WriteLines(FreshRead(n).content)

\* C19: every progress value reported by run's polling loop satisfies
\* 0 <= current <= total_files of that run, current being
\* processed + skipped + errors, in the first run and in any later one and at
\* any interleaving with the workers.
C19_ProgressWithinTotal ==
  main = "polling" => 0 <= progress_n /\ progress_n <= stats.total_files

\* C20: by the time run closes the progress bar and prints its summary, the
\* last value the polling loop reported is the number of files of the run.
C20_FinalProgressIsTotal ==
  RunReturned /\ enqueued # <<>> => progress_n = Len(enqueued)

\* the output folder run found holds a regular, readable file with the digest
\* of input file n
CopyInOutput(n) ==
  \E o \in DOMAIN outdir0.files :
    /\ outdir0.files[o].kind = "file"
    /\ outdir0.files[o].readable
    /\ Md5(outdir0.files[o].lines) = Md5(indir[n].lines)

\* C21: with the duplicate check off no job ends as a skipped duplicate: the
\* run leaves duplicates_found unchanged, is_duplicate has no say, and a file
\* is processed even when the output folder already holds a file with the
\* same digest.
C21_NoDuplicateCheckWhenDisabled ==
  runs >= 1 /\ ~attrs.check_duplicates =>
    /\ stats.duplicates_found = stats0.duplicates_found
    /\ TaggedCount({"duplicate"}) = 0
    /\ RunReturned =>
         \A i \in 1..Len(enqueued) :
           /\ indir[enqueued[i]].readable
           /\ CanOpenForWrite(outdir0, "extracted_" \o enqueued[i])
           => Processed(enqueued[i])

\* a run with the duplicate check off has processed a.txt although the output
\* folder held a copy of it
C21_Witness ==
  /\ RunReturned
  /\ ~attrs.check_duplicates
  /\ CopyInOutput("a.txt")
  /\ Processed("a.txt")

\* the number of files of this run that have been claimed
ClaimedCount == Len(enqueued) - Len(file_queue)

\* C22: jobs are claimed in FIFO order: the claimed files are always the first
\* files run enqueued and the queue holds the rest in order, every file is in
\* the queue before the first worker is started, and with one worker the files
\* are finished in the order of the list.
C22_FifoClaims ==
  runs >= 1 =>
    /\ ClaimedCount >= 0
    /\ file_queue = SubSeq(enqueued, ClaimedCount + 1, Len(enqueued))
    /\ \A i \in 1..Len(enqueued) :
         (i <= ClaimedCount) = (claimedBy[enqueued[i]] # <<>>)
    /\ main = "starting" /\ started = 0 => file_queue = enqueued
    /\ attrs.threads = 1 =>
         \A i, j \in 1..Len(enqueued) :
           i < j /\ results[enqueued[j]] # <<>> => results[enqueued[i]] # <<>>

\* of two files the first has been claimed by one of two workers and the
\* second is still in the queue
C22_Witness ==
  /\ attrs.threads = 2
  /\ Len(enqueued) = 2
  /\ file_queue = <<enqueued[2]>>
  /\ claimedBy[enqueued[1]] # <<>>
  /\ claimedBy[enqueued[2]] = <<>>

\* C23: with a cap of 0 a job inspects no line: nothing is retained and
\* filtered is 0, even when the first lines of the file hold a filter term.
C23_ZeroCapInspectsNothing ==
  \A n \in DOMAIN indir :
    Processed(n) /\ attrs.lines_to_extract = 0 =>
      /\ results[n][1].lines_written = 0
      /\ results[n][1].filtered = 0
      /\ RetainedOf(n) = <<>>

\* a file whose first line holds the filter term has been processed with cap 0
C23_Witness ==
  /\ RunReturned
  /\ attrs.lines_to_extract = 0
  /\ attrs.filter_terms = <<"Error">>
  /\ Processed("a.txt")
  /\ indir["a.txt"].lines # <<>>
  /\ indir["a.txt"].lines[1] = "an ERROR"

\* C24: in every reachable state of a run that began with zeroed counters and
\* has a cap c >= 0, total_lines <= c * processed.
C24_TotalLinesWithinCap ==
  /\ runs >= 1
  /\ JobCounters(stats0) = JobCounters(ZeroStats)
  /\ attrs.lines_to_extract >= 0
  => stats.total_lines <= attrs.lines_to_extract * stats.processed

\* a first run has processed a file of as many lines as the cap allows
C24_Witness ==
  /\ RunReturned
  /\ runs = 1
  /\ attrs.lines_to_extract = MaxCap
  /\ stats.processed = 1
  /\ stats.total_lines = MaxCap

\* what the output folder dir holds at the output path of input file n
OutEntry(dir, n) ==
  {dir.files[o] : o \in DOMAIN dir.files \cap {"extracted_" \o n}}

\* the counters only a processed job may change
WorkCounters(s) == <<s.processed, s.total_lines, s.filtered_lines>>

\* this step has noted a result for file n
NotedNow(n) == Len(results'[n]) > Len(results[n])

\* C25: a job that ends skipped or in error leaves processed, total_lines and
\* filtered_lines unchanged (lines retained or filtered before the failure are
\* not counted), and a job that ends skipped writes nothing to the output
\* folder.
C25_SkippedAndErrorLeaveWorkCounters ==
  /\ [](\A n \in DOMAIN indir :
          Tagged(n, {"skipped", "duplicate"}) # <<>> =>
            OutEntry(outdir, n) = OutEntry(outdir0, n))
  /\ [][\A n \in InNames :
          NotedNow(n) /\ results'[n][Len(results'[n])].tag # "processed" =>
            /\ WorkCounters(stats') = WorkCounters(stats)
            /\ results'[n][Len(results'[n])].tag # "error" => outdir' = outdir]_vars
  /\ [][WorkCounters(stats') # WorkCounters(stats) =>
          \E n \in InNames :
            NotedNow(n) /\ results'[n][Len(results'[n])].tag = "processed"]_vars

\* a.txt ended in error at the opening of its output file, after its lines had
\* been read, and the same run processed b.TXT
C25_Witness ==
  /\ RunReturned
  /\ Tagged("a.txt", {"error"}) # <<>>
  /\ "extracted_a.txt" \in DOMAIN outdir.files
  /\ outdir.files["extracted_a.txt"].kind = "dir"
  /\ indir["a.txt"].lines # <<>>
  /\ attrs.lines_to_extract > 0
  /\ Processed("b.TXT")

====
